---- MODULE Spec2Model ----
(***************************************************************************)
(* Model of the APS scheduling engine (scheduler.py) and of the part of   *)
(* the Streamlit script (app.py) that feeds it and stores its Plan.        *)
(* Timestamps and durations are integers (hours).  Python's None is the    *)
(* value None, which is no timestamp and no operation index.               *)
(***************************************************************************)
EXTENDS Integers, Sequences, FiniteSets, TLC

None == -1

\* ---------------------------------------------------------------- bounds
MaxCount    == 1      \* count of each simple product A, B, C is 0..MaxCount
MaxMachines == 2      \* the machine list has 0..MaxMachines machines
MaxRaw      == 3      \* a raw interval list has 0..MaxRaw intervals
MaxRows     == 2      \* a plan in the session has 0..MaxRows rows
MaxTrigger  == 2      \* Generate + Schedule clicks counted in the session
MaxBlocks   == 2      \* a block list walked step by step has 0..MaxBlocks intervals

\* ------------------------------------------------------- program constants
start_dt == 1         \* the global schedule start (default_start)
DateMax  == 999       \* datetime.max
TicksPerHour == 300   \* metrics reads timestamps to 12 s: 300 ticks in an hour

\* Scenario A: five 4-hour simple operations on three machines
ScenarioOps      == 5
ScenarioDur      == 4
ScenarioMachines == 3

Products   == <<"A", "B", "C">>
DDurations == <<1, 3, 2>>
Rules      == {"LPT", "EDD", "WSPT"}
BadTs      == None    \* a timestamp text that fromisoformat rejects

\* ------------------------------------------------------- input values
DurChoices    == {0, 1}        \* duration (h) of a simple product
DCounts       == 0..2          \* count of product D
LagChoices    == {0, 1}        \* minimum lag (h) between D operations
SlackChoices  == {None, 1}     \* auto_due_slack_hours: no due dates, or 1 h slack
JitterChoices == {0, 1}        \* jitter_hours
PPoints       == 0..3          \* interval end points and candidate starts
PDurs         == 0..3          \* task durations tried on an interval list

Max(a, b) == IF a >= b THEN a ELSE b
Min(a, b) == IF a <= b THEN a ELSE b

VARIABLES
    pc,             \* position in the run
    counts, durations_ABC, count_D, lag_D_min_h, machines, rule,
    auto_due_slack_hours, jitter_hours, dt_text,   \* the inputs of one run
    warnings,       \* downtime lines reported by st.warning
    downtime_raw,   \* parse_downtime's result
    orders,         \* generate_orders_with_D's result
    downtime,       \* schedule_orders: merged downtime
    orders_sorted,  \* schedule_orders: processing order
    k,              \* schedule_orders: index of the next operation
    avail,          \* schedule_orders: machine availability cursors
    prev_end_D,     \* schedule_orders: end of each scheduled D operation
    plan,           \* schedule_orders: the Plan built so far
    result,         \* "none" | "plan" | "error"
    run,            \* 1 for the first generate + schedule, 2 for the repeat
    first_plan,     \* the Plan the first run returned
    p_raw, p_merged, p_cand, p_dur, p_slot,   \* IntervalSet functions on their own
    s_blocks,       \* next_slot_avoiding_downtime: blocks
    s_cur,          \* next_slot_avoiding_downtime: cur
    s_bumps,        \* number of times the while loop was restarted
    m_plan,         \* the plan handed to metrics
    m_out,          \* metrics' result
    ss_plan,        \* st.session_state["plan"]
    ss_trigger,     \* st.session_state["_trigger"]
    uploaded,       \* the file held by st.file_uploader
    st_out          \* messages of the last script run

inputs == <<counts, durations_ABC, count_D, lag_D_min_h, machines, rule,
            auto_due_slack_hours, jitter_hours, dt_text>>
engine == <<downtime, orders_sorted, k, avail, prev_end_D, plan, result>>
twice  == <<run, first_plan>>
stepped == <<s_blocks, s_cur, s_bumps>>
met    == <<m_plan, m_out>>
pure   == <<p_raw, p_merged, p_cand, p_dur, p_slot, stepped, met>>
app    == <<ss_plan, ss_trigger, uploaded, st_out>>
vars   == <<pc, inputs, warnings, downtime_raw, orders, engine, twice, pure, app>>

\* ------------------------------------------------------------ IntervalSet
DictGet(d, m) == IF m \in DOMAIN d THEN d[m] ELSE <<>>

\* sorted(intervals, key=lambda x: x[0]): stable insertion by start
RECURSIVE SortByStart(_)
SortByStart(I) ==
    IF I = <<>> THEN <<>>
    ELSE LET s == SortByStart(SubSeq(I, 1, Len(I) - 1))
             x == I[Len(I)]
             p == Cardinality({i \in 1..Len(s) : s[i][1] <= x[1]})
         IN  SubSeq(s, 1, p) \o <<x>> \o SubSeq(s, p + 1, Len(s))

\* mutant: extends the last interval to the new end without max()
RECURSIVE MergeLoop_nomax(_, _)
MergeLoop_nomax(out, rest) ==
    IF rest = <<>> THEN out
    ELSE LET s == rest[1][1]
             e == rest[1][2]
             last == out[Len(out)]
         IN  IF s <= last[2]
             THEN MergeLoop_nomax([out EXCEPT ![Len(out)] = <<last[1], e>>], Tail(rest))
             ELSE MergeLoop_nomax(Append(out, <<s, e>>), Tail(rest))

RECURSIVE MergeLoop(_, _)
MergeLoop(out, rest) ==
    IF rest = <<>> THEN out
    ELSE LET s == rest[1][1]
             e == rest[1][2]
             last == out[Len(out)]
         IN  IF s <= last[2]
             THEN MergeLoop([out EXCEPT ![Len(out)] = <<last[1], Max(last[2], e)>>],
                            Tail(rest))
             ELSE MergeLoop(Append(out, <<s, e>>), Tail(rest))

merge_intervals(intervals) ==
    IF intervals = <<>> THEN <<>>
    ELSE LET I == SortByStart(intervals)
         IN  MergeLoop(<<I[1]>>, Tail(I))

\* mutant: only tests whether the task's start lies inside the block
overlaps_startonly(a, b) == b[1] <= a[1] /\ a[1] < b[2]

overlaps(a, b) == a[1] < b[2] /\ b[1] < a[2]

\* index of the first block the task interval overlaps, 0 when there is none
FirstOverlap(cur, dur, blocks) ==
    LET hit == {i \in 1..Len(blocks) : overlaps(<<cur, cur + dur>>, blocks[i])}
    IN  IF hit = {} THEN 0 ELSE CHOOSE i \in hit : \A j \in hit : i <= j

\* mutant: jumps one hour past the end of the downtime
RECURSIVE SlotLoop_late(_, _, _)
SlotLoop_late(cur, dur, blocks) ==
    LET i == FirstOverlap(cur, dur, blocks)
    IN  IF i = 0 THEN cur ELSE SlotLoop_late(blocks[i][2] + 1, dur, blocks)

RECURSIVE SlotLoop(_, _, _)
SlotLoop(cur, dur, blocks) ==
    LET i == FirstOverlap(cur, dur, blocks)
    IN  IF i = 0 THEN cur ELSE SlotLoop(blocks[i][2], dur, blocks)

next_slot_avoiding_downtime(start, duration_h, machine, dt) ==
    LET blocks == DictGet(dt, machine)
    IN  IF blocks = <<>> THEN start ELSE SlotLoop(start, duration_h, blocks)

\* --------------------------------------------------------- parse_downtime
EmptyDict == [x \in {} |-> <<>>]

\* one line "name, start, end": the try body appends, the except branch warns
RECURSIVE ParseLoop(_, _, _)
ParseLoop(lines, out, warned) ==
    IF lines = <<>> THEN [out |-> out, warned |-> warned]
    ELSE LET line == lines[1]
         IN  IF line.s = BadTs \/ line.e = BadTs
             THEN ParseLoop(Tail(lines), out, Append(warned, line))
             ELSE ParseLoop(Tail(lines),
                            IF line.m \in DOMAIN out
                            THEN [out EXCEPT ![line.m] = Append(@, <<line.s, line.e>>)]
                            ELSE out @@ (line.m :> << <<line.s, line.e>> >>),
                            warned)

parse_downtime(text) == ParseLoop(text, EmptyDict, <<>>)

\* ------------------------------------------------------ WorkOrderGenerator
\* the decimal digits of idx: the id f"WO{idx}" without its constant prefix
RECURSIVE Digits(_)
Digits(n) == IF n < 10 THEN <<n>> ELSE Digits(n \div 10) \o <<n % 10>>

wo_id(idx) == Digits(idx)

WorkOrder(id, product, duration_hours, op_index, due_date) ==
    [id |-> id, product |-> product, duration_hours |-> duration_hours,
     op_index |-> op_index, due_date |-> due_date]

Rep(p, n) == [i \in 1..n |-> p]

\* the product of the idx-th simple work order: for p in ["A","B","C"], counts[p] times
SimpleProducts(cnt) ==
    Rep(Products[1], cnt[Products[1]]) \o Rep(Products[2], cnt[Products[2]])
        \o Rep(Products[3], cnt[Products[3]])

\* the jitter values (random() - 0.5) * 2.0 * jitter_hours can take, random() in [0, 1)
JitterValues(jh) == IF jh # 0 THEN (0 - jh)..(jh - 1) ELSE {0}

SimpleDue(start, dur, slack, jitter) ==
    IF slack # None THEN start + dur + slack + jitter ELSE None

DDue(start, lag, slack) ==
    IF slack # None THEN start + (1 + 3 + 2 + (2 * lag)) + slack ELSE None

\* mutant: idx is not advanced after a D work order
generate_orders_with_D_sameid(cnt, durs, cntD, lag, start, slack, rnd) ==
    LET prods == SimpleProducts(cnt)
        n     == Len(prods)
        abc   == [i \in 1..n |->
                    WorkOrder(wo_id(i), prods[i], durs[prods[i]], None,
                              SimpleDue(start, durs[prods[i]], slack, rnd[i]))]
        dops  == [q \in 1..(3 * cntD) |->
                    LET op == ((q - 1) % 3) + 1
                    IN  WorkOrder(wo_id(n + 1), "D", DDurations[op], op,
                                  DDue(start, lag, slack))]
    IN  abc \o dops

\* rnd[i] is the jitter drawn for the i-th simple work order
generate_orders_with_D(cnt, durs, cntD, lag, start, slack, rnd) ==
    LET prods == SimpleProducts(cnt)
        n     == Len(prods)
        abc   == [i \in 1..n |->
                    WorkOrder(wo_id(i), prods[i], durs[prods[i]], None,
                              SimpleDue(start, durs[prods[i]], slack, rnd[i]))]
        dops  == [q \in 1..(3 * cntD) |->
                    LET j  == ((q - 1) \div 3) + 1
                        op == ((q - 1) % 3) + 1
                    IN  WorkOrder(wo_id(n + j), "D", DDurations[op], op,
                                  DDue(start, lag, slack))]
    IN  abc \o dops

\* -------------------------------------------------------- SchedulingEngine
ProdRank(p) == CASE p = "A" -> 1 [] p = "B" -> 2 [] p = "C" -> 3 [] OTHER -> 4

Or0(x) == IF x = None THEN 0 ELSE x

\* Python's order on strings and on tuples of numbers
RECURSIVE LexLess(_, _)
LexLess(a, b) ==
    IF a = <<>> THEN b # <<>>
    ELSE IF b = <<>> THEN FALSE
    ELSE IF a[1] # b[1] THEN a[1] < b[1]
    ELSE LexLess(Tail(a), Tail(b))

sort_key(o, r) ==
    CASE r = "LPT"  -> <<0 - o.duration_hours, ProdRank(o.product), Or0(o.op_index)>>
      [] r = "EDD"  -> <<IF o.due_date = None THEN 1 ELSE 0,
                         IF o.due_date = None THEN DateMax ELSE o.due_date,
                         ProdRank(o.product), Or0(o.op_index)>>
      [] r = "WSPT" -> <<o.duration_hours, ProdRank(o.product), Or0(o.op_index)>>
      [] OTHER      -> <<ProdRank(o.product), Or0(o.op_index)>>

\* mutant: the key starts with the id, without the product group
KeyLess_nogroup(a, b, r) ==
    \/ LexLess(a.id, b.id)
    \/ /\ a.id = b.id
       /\ LexLess(<<Or0(a.op_index)>> \o sort_key(a, r),
                  <<Or0(b.op_index)>> \o sort_key(b, r))

\* (o.product != "D", o.id, o.op_index or 0, *sort_key(o)) of a before that of b
KeyLess(a, b, r) ==
    LET ga == IF a.product # "D" THEN 1 ELSE 0
        gb == IF b.product # "D" THEN 1 ELSE 0
    IN  \/ ga < gb
        \/ /\ ga = gb
           /\ \/ LexLess(a.id, b.id)
              \/ /\ a.id = b.id
                 /\ LexLess(<<Or0(a.op_index)>> \o sort_key(a, r),
                            <<Or0(b.op_index)>> \o sort_key(b, r))

\* sorted(orders, key=...): stable
RECURSIVE SortOrders(_, _)
SortOrders(os, r) ==
    IF os = <<>> THEN <<>>
    ELSE LET s == SortOrders(SubSeq(os, 1, Len(os) - 1), r)
             x == os[Len(os)]
             p == Cardinality({i \in 1..Len(s) : ~KeyLess(x, s[i], r)})
         IN  SubSeq(s, 1, p) \o <<x>> \o SubSeq(s, p + 1, Len(s))

MergeAll(dt) == [m \in DOMAIN dt |-> merge_intervals(dt[m])]

InitAvail(ms, start) == [m \in {ms[i] : i \in 1..Len(ms)} |-> start]

\* mutant: forgets the minimum lag
Earliest_nolag(o, prev, start, lag) ==
    IF o.product = "D" /\ o.op_index # None /\ o.op_index > 1
    THEN LET prev_key == <<o.id, o.op_index - 1>>
         IN  IF prev_key \notin DOMAIN prev THEN start
             ELSE Max(start, prev[prev_key])
    ELSE start

\* earliest start by precedence
Earliest(o, prev, start, lag) ==
    IF o.product = "D" /\ o.op_index # None /\ o.op_index > 1
    THEN LET prev_key == <<o.id, o.op_index - 1>>
         IN  IF prev_key \notin DOMAIN prev THEN start
             ELSE Max(start, prev[prev_key] + lag)
    ELSE start

\* mutant: ignores the machine's availability cursor
Candidate_noavail(m, av, earliest, dur_h, dt) ==
    next_slot_avoiding_downtime(earliest, dur_h, m, dt)

\* candidate = max(avail[m], earliest), moved past the machine's downtime
Candidate(m, av, earliest, dur_h, dt) ==
    next_slot_avoiding_downtime(Max(av[m], earliest), dur_h, m, dt)

\* mutant: a later machine with the same start replaces the chosen one
RECURSIVE PickMachine_last(_, _, _, _, _, _)
PickMachine_last(ms, best, av, earliest, dur_h, dt) ==
    IF ms = <<>> THEN best
    ELSE LET m == ms[1]
             candidate == Candidate(m, av, earliest, dur_h, dt)
             end == candidate + dur_h
         IN  IF best.best_start = None \/ candidate <= best.best_start
             THEN PickMachine_last(Tail(ms),
                              [chosen |-> m, best_start |-> candidate, best_end |-> end],
                              av, earliest, dur_h, dt)
             ELSE PickMachine_last(Tail(ms), best, av, earliest, dur_h, dt)

\* for m in machines: the first machine with the smallest feasible start
RECURSIVE PickMachine(_, _, _, _, _, _)
PickMachine(ms, best, av, earliest, dur_h, dt) ==
    IF ms = <<>> THEN best
    ELSE LET m == ms[1]
             candidate == Candidate(m, av, earliest, dur_h, dt)
             end == candidate + dur_h
         IN  IF best.best_start = None \/ candidate < best.best_start
             THEN PickMachine(Tail(ms),
                              [chosen |-> m, best_start |-> candidate, best_end |-> end],
                              av, earliest, dur_h, dt)
             ELSE PickMachine(Tail(ms), best, av, earliest, dur_h, dt)

\* mutant: records the start as the end
PlanItem_noend(o, chosen, best_start, best_end) ==
    [id |-> o.id, product |-> o.product,
     operation |-> <<o.product, Or0(o.op_index)>>,
     machine |-> chosen, start |-> best_start, end |-> best_start,
     duration_hours |-> o.duration_hours, due_date |-> o.due_date]

PlanItem(o, chosen, best_start, best_end) ==
    [id |-> o.id, product |-> o.product,
     operation |-> <<o.product, Or0(o.op_index)>>,
     machine |-> chosen, start |-> best_start, end |-> best_end,
     duration_hours |-> o.duration_hours, due_date |-> o.due_date]

RecordEnd(prev, o, best_end) ==
    IF o.product = "D" /\ o.op_index # None
    THEN IF <<o.id, o.op_index>> \in DOMAIN prev
         THEN [prev EXCEPT ![<<o.id, o.op_index>>] = best_end]
         ELSE prev @@ (<<o.id, o.op_index>> :> best_end)
    ELSE prev

\* ------------------------------------------------------------ input sets
ProductSet == {Products[i] : i \in 1..Len(Products)}
SeqsUpTo(S, n) == UNION {[1..l -> S] : l \in 0..n}

\* a downtime line "Machine m, s, e"
DtLine(m, s, e) == [m |-> m, s |-> s, e |-> e]

\* the downtime texts tried: no line, one line, two lines
DtTexts ==
    LET t0 == start_dt
        down1  == DtLine(1, t0, t0 + 2)       \* machine 1 is down at the start
        hole1  == DtLine(1, t0 + 2, t0 + 3)   \* machine 1 is down later
        down2  == DtLine(2, t0, t0 + 2)       \* machine 2 is down at the start
        hole2  == DtLine(2, t0 + 1, t0 + 3)
        back1  == DtLine(1, t0 + 3, t0 + 2)   \* end before start
        empty1 == DtLine(1, t0 + 2, t0 + 2)   \* end equal to start
        bad1   == DtLine(1, t0, BadTs)        \* unparseable
    IN  {<<>>, <<down1>>, <<hole1>>, <<down2>>, <<hole2>>, <<back1>>, <<empty1>>,
         <<bad1>>, <<down1, hole1>>, <<down1, down2>>, <<hole1, back1>>}
MachineList(n) == [i \in 1..n |-> i]

NoPlan == [origin |-> "absent", rows |-> <<>>]
NoFile == [kind |-> "none", plan |-> <<>>]
NoMetrics == [called |-> FALSE]

EngineIdle ==
    /\ warnings = <<>>
    /\ downtime_raw = EmptyDict
    /\ orders = <<>>
    /\ downtime = EmptyDict
    /\ orders_sorted = <<>>
    /\ k = 0
    /\ avail = EmptyDict
    /\ prev_end_D = EmptyDict
    /\ plan = <<>>
    /\ result = "none"
    /\ run = 1
    /\ first_plan = <<>>

InputsIdle ==
    /\ counts = [p \in ProductSet |-> 0]
    /\ durations_ABC = [p \in ProductSet |-> 0]
    /\ count_D = 0
    /\ lag_D_min_h = 0
    /\ machines = <<>>
    /\ rule = "LPT"
    /\ auto_due_slack_hours = None
    /\ jitter_hours = 0
    /\ dt_text = <<>>

SteppedIdle ==
    /\ s_blocks = <<>>
    /\ s_cur = 0
    /\ s_bumps = 0

MetIdle ==
    /\ m_plan = <<>>
    /\ m_out = NoMetrics

PureIdle ==
    /\ p_raw = <<>>
    /\ p_merged = <<>>
    /\ p_cand = 0
    /\ p_dur = 0
    /\ p_slot = 0
    /\ SteppedIdle
    /\ MetIdle

AppIdle ==
    /\ ss_plan = NoPlan
    /\ ss_trigger = 0
    /\ uploaded = NoFile
    /\ st_out = {}

\* the widget values of one run; the duration of a product that is not
\* generated is never read and is fixed to 0, like the jitter without due dates
\* and the lag without a D work order
InputsFrom(texts, jitters) ==
    /\ counts \in [ProductSet -> 0..MaxCount]
    /\ durations_ABC \in [ProductSet -> DurChoices]
    /\ \A p \in ProductSet : counts[p] = 0 => durations_ABC[p] = 0
    /\ count_D \in DCounts
    /\ lag_D_min_h \in LagChoices
    /\ count_D = 0 => lag_D_min_h = 0
    /\ machines \in {MachineList(n) : n \in 0..MaxMachines}
    /\ rule \in Rules
    /\ auto_due_slack_hours \in SlackChoices
    /\ jitter_hours \in jitters
    /\ auto_due_slack_hours = None => jitter_hours = 0
    /\ dt_text \in texts

\* one run of the script's "Build orders & schedule" section: every downtime
\* text, due dates without jitter
Init ==
    /\ pc = "parse"
    /\ EngineIdle
    /\ PureIdle
    /\ AppIdle
    /\ InputsFrom(DtTexts, {0})

\* app.py: downtime = parse_downtime(dt_text)
ParseDowntime ==
    /\ pc = "parse"
    /\ LET r == parse_downtime(dt_text)
       IN  /\ downtime_raw' = r.out
           /\ warnings' = r.warned
    /\ pc' = "generate"
    /\ UNCHANGED <<inputs, orders, engine, twice, pure, app>>

\* app.py: orders = generate_orders_with_D(...); every random() is a free draw
Generate ==
    /\ pc = "generate"
    /\ \E rnd \in [1..Len(SimpleProducts(counts)) ->
                     IF auto_due_slack_hours # None THEN JitterValues(jitter_hours)
                                                    ELSE {0}] :
          orders' = generate_orders_with_D(counts, durations_ABC, count_D, lag_D_min_h,
                                           start_dt, auto_due_slack_hours, rnd)
    /\ pc' = "schedule"
    /\ UNCHANGED <<inputs, warnings, downtime_raw, engine, twice, pure, app>>

\* schedule_orders up to the loop: merge the downtime, sort, reset the cursors
ScheduleBegin ==
    /\ pc = "schedule"
    /\ downtime' = MergeAll(downtime_raw)
    /\ prev_end_D' = EmptyDict
    /\ orders_sorted' = SortOrders(orders, rule)
    /\ avail' = InitAvail(machines, start_dt)
    /\ plan' = <<>>
    /\ k' = 1
    /\ pc' = "loop"
    /\ UNCHANGED <<inputs, warnings, downtime_raw, orders, result, twice, pure, app>>

\* one iteration of "for o in orders_sorted"
ScheduleStep ==
    /\ pc = "loop"
    /\ k <= Len(orders_sorted)
    /\ machines # <<>>
    /\ LET o == orders_sorted[k]
           earliest == Earliest(o, prev_end_D, start_dt, lag_D_min_h)
           best == PickMachine(machines,
                               [chosen |-> machines[1], best_start |-> None,
                                best_end |-> None],
                               avail, earliest, o.duration_hours, downtime)
       IN  /\ avail' = [avail EXCEPT ![best.chosen] = best.best_end]
           /\ plan' = Append(plan, PlanItem(o, best.chosen, best.best_start, best.best_end))
           /\ prev_end_D' = RecordEnd(prev_end_D, o, best.best_end)
    /\ k' = k + 1
    /\ UNCHANGED <<pc, inputs, warnings, downtime_raw, orders, downtime, orders_sorted,
                   result, twice, pure, app>>

\* chosen = machines[0] on an empty machine list: IndexError leaves schedule_orders
ScheduleError ==
    /\ pc = "loop"
    /\ k <= Len(orders_sorted)
    /\ machines = <<>>
    /\ pc' = "error"
    /\ result' = "error"
    /\ UNCHANGED <<inputs, warnings, downtime_raw, orders, downtime, orders_sorted, k,
                   avail, prev_end_D, plan, twice, pure, app>>

\* return plan
ScheduleReturn ==
    /\ pc = "loop"
    /\ k > Len(orders_sorted)
    /\ pc' = "done"
    /\ result' = "plan"
    /\ UNCHANGED <<inputs, warnings, downtime_raw, orders, downtime, orders_sorted, k,
                   avail, prev_end_D, plan, twice, pure, app>>

Next ==
    \/ ParseDowntime
    \/ Generate
    \/ ScheduleBegin
    \/ ScheduleStep
    \/ ScheduleError
    \/ ScheduleReturn

Spec == Init /\ [][Next]_vars

\* ------------------------------------------- the same inputs, run twice
\* the script's next "Build orders & schedule" with unchanged widget values
Regenerate ==
    /\ pc = "done"
    /\ run = 1
    /\ run' = 2
    /\ first_plan' = plan
    /\ pc' = "generate"
    /\ orders' = <<>>
    /\ downtime' = EmptyDict
    /\ orders_sorted' = <<>>
    /\ k' = 0
    /\ avail' = EmptyDict
    /\ prev_end_D' = EmptyDict
    /\ plan' = <<>>
    /\ result' = "none"
    /\ UNCHANGED <<inputs, warnings, downtime_raw, pure, app>>

\* no downtime, due dates with and without jitter
InitTwice ==
    /\ pc = "parse"
    /\ EngineIdle
    /\ PureIdle
    /\ AppIdle
    /\ InputsFrom({<<>>}, JitterChoices)

NextTwice == Next \/ Regenerate

SpecTwice == InitTwice /\ [][NextTwice]_vars

\* --------------------------------------- generate_orders_with_D alone
\* every widget value the generator reads, due dates with and without jitter
InitGen ==
    /\ pc = "generate"
    /\ EngineIdle
    /\ PureIdle
    /\ AppIdle
    /\ InputsFrom({<<>>}, JitterChoices)

NextGen == Generate

SpecGen == InitGen /\ [][NextGen]_vars

\* ------------------------------------ merge_intervals and next_slot alone
PIntervals == PPoints \X PPoints

InitPure ==
    /\ pc = "raw"
    /\ InputsIdle
    /\ EngineIdle
    /\ AppIdle
    /\ p_raw \in SeqsUpTo(PIntervals, MaxRaw)
    /\ p_merged = <<>>
    /\ p_cand = 0
    /\ p_dur = 0
    /\ p_slot = 0
    /\ SteppedIdle
    /\ MetIdle

Normalize ==
    /\ pc = "raw"
    /\ p_merged' = merge_intervals(p_raw)
    /\ pc' = "merged"
    /\ UNCHANGED <<inputs, warnings, downtime_raw, orders, engine, twice, app,
                   p_raw, p_cand, p_dur, p_slot, stepped, met>>

FindSlot ==
    /\ pc = "merged"
    /\ \E c \in PPoints, d \in PDurs :
          /\ p_cand' = c
          /\ p_dur' = d
          /\ p_slot' = next_slot_avoiding_downtime(c, d, 1, 1 :> p_merged)
    /\ pc' = "slot"
    /\ UNCHANGED <<inputs, warnings, downtime_raw, orders, engine, twice, app,
                   p_raw, p_merged, stepped, met>>

NextPure == Normalize \/ FindSlot

SpecPure == InitPure /\ [][NextPure]_vars

\* --------------------- next_slot_avoiding_downtime, one loop pass at a time
\* mutant: jumps to the start of the downtime
JumpTo_start(block) == block[1]

\* cur = de
JumpTo(block) == block[2]

\* any finite block list, merged or not, intervals with end <= start included
InitSlot ==
    /\ pc = "slot_call"
    /\ InputsIdle
    /\ EngineIdle
    /\ AppIdle
    /\ MetIdle
    /\ p_raw = <<>>
    /\ p_merged = <<>>
    /\ p_slot = 0
    /\ p_cand \in PPoints
    /\ p_dur \in PDurs
    /\ s_blocks \in SeqsUpTo(PIntervals, MaxBlocks)
    /\ s_cur = 0
    /\ s_bumps = 0

\* cur = start; the fast exit returns it when the machine has no block
SlotEnter ==
    /\ pc = "slot_call"
    /\ s_cur' = p_cand
    /\ IF s_blocks = <<>>
       THEN p_slot' = p_cand /\ pc' = "slot_returned"
       ELSE p_slot' = p_slot /\ pc' = "slot_while"
    /\ UNCHANGED <<inputs, warnings, downtime_raw, orders, engine, twice, app, met,
                   p_raw, p_merged, p_cand, p_dur, s_blocks, s_bumps>>

\* a pass of the while loop that finds an overlapping block and restarts
SlotBump ==
    /\ pc = "slot_while"
    /\ FirstOverlap(s_cur, p_dur, s_blocks) # 0
    /\ s_cur' = JumpTo(s_blocks[FirstOverlap(s_cur, p_dur, s_blocks)])
    /\ s_bumps' = s_bumps + 1
    /\ UNCHANGED <<pc, inputs, warnings, downtime_raw, orders, engine, twice, app, met,
                   p_raw, p_merged, p_cand, p_dur, p_slot, s_blocks>>

\* a pass that finds no overlapping block: return cur
SlotReturn ==
    /\ pc = "slot_while"
    /\ FirstOverlap(s_cur, p_dur, s_blocks) = 0
    /\ p_slot' = s_cur
    /\ pc' = "slot_returned"
    /\ UNCHANGED <<inputs, warnings, downtime_raw, orders, engine, twice, app, met,
                   p_raw, p_merged, p_cand, p_dur, stepped>>

NextSlot == SlotEnter \/ SlotBump \/ SlotReturn

\* the call runs without interruption: a pass that can be taken is taken
SpecSlot == InitSlot /\ [][NextSlot]_vars /\ WF_vars(NextSlot)

\* ---------------------------------------------------------------- metrics
\* A row handed to metrics carries the columns metrics reads; start, end,
\* due_date and duration_hours are in ticks.  Reported hours are in
\* hundredths of an hour, percentages in hundredths (tenths for percent_late).
RECURSIVE SumIdx(_, _)
SumIdx(S, f) ==
    IF S = {} THEN 0
    ELSE LET i == CHOOSE x \in S : TRUE IN f[i] + SumIdx(S \ {i}, f)

SetMax(S) == CHOOSE x \in S : \A y \in S : x >= y
SetMin(S) == CHOOSE x \in S : \A y \in S : x <= y

\* round(n / d): to the nearest integer, a tie to the even one
RoundDiv(n, d) ==
    LET q == n \div d
        r == n - (q * d)
    IN  IF 2 * r < d THEN q
        ELSE IF 2 * r > d THEN q + 1
        ELSE IF q % 2 = 0 THEN q ELSE q + 1

\* round(ticks / 3600 s, 2), in hundredths of an hour
RoundHours(ticks) == RoundDiv(100 * ticks, TicksPerHour)

\* mutant: end of the last row minus start of the first row
MakespanTicks_firstlast(rows) == rows[Len(rows)].end - rows[1].start

\* df["end"].max() - df["start"].min()
MakespanTicks(rows) ==
    SetMax({rows[i].end : i \in 1..Len(rows)}) - SetMin({rows[i].start : i \in 1..Len(rows)})

\* for m, g in df.groupby("machine")
ByMachine(rows) ==
    [m \in {rows[i].machine : i \in 1..Len(rows)} |->
        LET g == {i \in 1..Len(rows) : rows[i].machine = m}
            duration_sum == SumIdx(g, [i \in g |-> rows[i].duration_hours])
            span == SetMax({rows[i].end : i \in g}) - SetMin({rows[i].start : i \in g})
        IN  [ops |-> Cardinality(g),
             hours |-> duration_sum,
             utilization_pct |-> IF span > 0 THEN RoundDiv(duration_sum * 10000, span)
                                             ELSE 0,
             span_hours |-> RoundHours(span)]]

\* the lateness block: rows without a due date count as not late
Lateness(rows) ==
    LET dated == {i \in 1..Len(rows) : rows[i].due_date # None}
        late  == [i \in dated |-> rows[i].end - rows[i].due_date]
        tardy == [i \in dated |-> Max(late[i], 0)]
    IN  IF dated = {} THEN EmptyDict
        ELSE [avg_lateness_h |-> RoundDiv(100 * SumIdx(dated, late),
                                          TicksPerHour * Cardinality(dated)),
              total_tardiness_h |-> RoundHours(SumIdx(dated, tardy)),
              percent_late |-> RoundDiv(1000 * Cardinality({i \in dated : tardy[i] > 0}),
                                        Len(rows))]

metrics(rows) ==
    IF rows = <<>>
    THEN [called |-> TRUE, makespan_hours |-> 0, by_machine |-> EmptyDict,
          lateness |-> EmptyDict]
    ELSE [called |-> TRUE, makespan_hours |-> RoundHours(MakespanTicks(rows)),
          by_machine |-> ByMachine(rows), lateness |-> Lateness(rows)]

\* the columns of a Plan of schedule_orders that metrics reads, hours as ticks
PlanTicks(p) ==
    [i \in 1..Len(p) |->
        [machine |-> p[i].machine,
         start |-> p[i].start * TicksPerHour,
         end |-> p[i].end * TicksPerHour,
         duration_hours |-> p[i].duration_hours * TicksPerHour,
         due_date |-> IF p[i].due_date = None THEN None
                      ELSE p[i].due_date * TicksPerHour]]

\* rows of a plan whose times are not whole hours (downtime ends at any
\* second, plans are edited and loaded)
MetricRows ==
    [machine : {1, 2},
     start : {0, TicksPerHour},
     end : {TicksPerHour, TicksPerHour + 2, (2 * TicksPerHour) + 3},
     duration_hours : {0, TicksPerHour},
     due_date : {None, TicksPerHour}]

\* Scenario A under every rule and every split of the five operations over
\* the simple products
InitScenario ==
    /\ pc = "parse"
    /\ counts \in [ProductSet -> 0..ScenarioOps]
    /\ counts["A"] + counts["B"] + counts["C"] = ScenarioOps
    /\ durations_ABC = [p \in ProductSet |-> ScenarioDur]
    /\ count_D = 0
    /\ lag_D_min_h = 0
    /\ machines = MachineList(ScenarioMachines)
    /\ rule \in Rules
    /\ auto_due_slack_hours \in SlackChoices
    /\ jitter_hours = 0
    /\ dt_text = <<>>
    /\ m_plan = <<>>

InitRows ==
    /\ pc = "rows"
    /\ InputsIdle
    /\ m_plan \in SeqsUpTo(MetricRows, MaxRows)

InitMetrics ==
    /\ EngineIdle
    /\ AppIdle
    /\ SteppedIdle
    /\ p_raw = <<>> /\ p_merged = <<>> /\ p_cand = 0 /\ p_dur = 0 /\ p_slot = 0
    /\ m_out = NoMetrics
    /\ (InitScenario \/ InitRows)

\* m = metrics(plan) on the Plan schedule_orders returned
MetricsOfPlan ==
    /\ pc = "done"
    /\ m_plan' = PlanTicks(plan)
    /\ m_out' = metrics(PlanTicks(plan))
    /\ pc' = "metrics"
    /\ UNCHANGED <<inputs, warnings, downtime_raw, orders, engine, twice, app,
                   p_raw, p_merged, p_cand, p_dur, p_slot, stepped>>

\* m = metrics(plan) on any other plan of the session
MetricsOfRows ==
    /\ pc = "rows"
    /\ m_out' = metrics(m_plan)
    /\ pc' = "metrics"
    /\ UNCHANGED <<inputs, warnings, downtime_raw, orders, engine, twice, app,
                   p_raw, p_merged, p_cand, p_dur, p_slot, stepped, m_plan>>

NextMetrics ==
    \/ ParseDowntime
    \/ Generate
    \/ ScheduleBegin
    \/ ScheduleStep
    \/ ScheduleReturn
    \/ MetricsOfPlan
    \/ MetricsOfRows

SpecMetrics == InitMetrics /\ [][NextMetrics]_vars

\* ------------------------------------------------ the script's session
\* A plan is a list of records; a record is modelled by the set of its keys.
Fields   == {"id", "product", "operation", "machine", "start", "end",
             "duration_hours", "due_date"}
req_cols == {"id", "product", "machine", "start", "end", "duration_hours"}

\* pd.DataFrame(plan): the columns are the keys of all records
plan_to_dataframe(rows) ==
    [columns |-> UNION {rows[i] : i \in 1..Len(rows)}, nrows |-> Len(rows)]

\* every record of df.to_dict(orient="records") has every column
dataframe_to_plan(df) ==
    IF ~(req_cols \subseteq df.columns)
    THEN [ok |-> FALSE, rows |-> <<>>]
    ELSE [ok |-> TRUE, rows |-> Rep(df.columns, df.nrows)]

\* schedule_orders's Plan of n operations: one PlanItem record each
ScheduledPlan(n) == [origin |-> "scheduled", rows |-> Rep(Fields, n)]

\* the files a user can give the uploader
RowKeys == {Fields, Fields \ {"due_date"}, Fields \ {"machine"}, req_cols}
Files ==
    {[kind |-> "badjson", plan |-> <<>>], [kind |-> "noplan", plan |-> <<>>]}
        \cup [kind : {"json"}, plan : SeqsUpTo(RowKeys, MaxRows)]

\* metrics, the chart and the data editor read all eight columns of a
\* non-empty frame; df["product"] fails on the column-less empty frame
DisplayFails(rows) ==
    LET df == plan_to_dataframe(rows)
    IN  df.nrows = 0 \/ ~(Fields \subseteq df.columns)

\* One run of the script from top to bottom.  click is the button pressed in
\* this run ("none", "generate", "apply"), n the number of operations the
\* widgets ask for, edited_n the number of rows left in the data editor.
ScriptRun(click, n, edited_n, file) ==
    LET trig1 == IF click = "generate" THEN ss_trigger + 1 ELSE ss_trigger
        plan1 == IF ss_plan = NoPlan \/ trig1 # 0 THEN ScheduledPlan(n) ELSE ss_plan
        crash == DisplayFails(plan1.rows)
        edit  == dataframe_to_plan([columns |-> Fields, nrows |-> edited_n])
        apply == ~crash /\ click = "apply"
        plan2 == IF apply /\ edit.ok THEN [origin |-> "edited", rows |-> edit.rows]
                 ELSE plan1
        load  == ~crash /\ file # NoFile
        plan3 == IF load /\ file.kind = "json" /\ file.plan # <<>>
                 THEN [origin |-> "loaded", rows |-> file.plan]
                 ELSE plan2
    IN  /\ ss_trigger' = trig1
        /\ ss_plan' = plan3
        /\ uploaded' = file
        /\ st_out' = (IF crash THEN {"exception"} ELSE {})
                \cup (IF apply THEN (IF edit.ok THEN {"Applied edits."}
                                               ELSE {"Invalid edits"}) ELSE {})
                \cup (IF load THEN (CASE file.kind = "badjson" -> {"Failed to parse JSON"}
                                      [] file.kind = "json" /\ file.plan # <<>>
                                            -> {"Plan loaded."}
                                      [] OTHER -> {"JSON missing 'plan' field."})
                               ELSE {})
        /\ UNCHANGED <<pc, inputs, warnings, downtime_raw, orders, engine, twice, pure>>

\* a widget other than the buttons and the uploader changes (or the first run)
Rerun ==
    /\ pc = "app"
    /\ \E n \in 0..MaxRows : ScriptRun("none", n, 0, uploaded)

ClickGenerate ==
    /\ pc = "app"
    /\ ss_trigger < MaxTrigger
    /\ \E n \in 0..MaxRows : ScriptRun("generate", n, 0, uploaded)

ClickApply ==
    /\ pc = "app"
    /\ ss_plan # NoPlan
    /\ \E n \in 0..MaxRows, e \in 0..MaxRows : ScriptRun("apply", n, e, uploaded)

UploadFile ==
    /\ pc = "app"
    /\ ss_plan # NoPlan
    /\ \E n \in 0..MaxRows, f \in Files : f # uploaded /\ ScriptRun("none", n, 0, f)

RemoveFile ==
    /\ pc = "app"
    /\ uploaded # NoFile
    /\ \E n \in 0..MaxRows : ScriptRun("none", n, 0, NoFile)

InitApp ==
    /\ pc = "app"
    /\ InputsIdle
    /\ EngineIdle
    /\ PureIdle
    /\ AppIdle

NextApp == Rerun \/ ClickGenerate \/ ClickApply \/ UploadFile \/ RemoveFile

SpecApp == InitApp /\ [][NextApp]_vars

\* ================================================================ claims
\* the half-open windows [s, e) and [ds, de) have a point in common
Intersects(s, e, ds, de) == Max(s, ds) < Min(e, de)

PlanIdx == 1..Len(plan)
Scheduling == pc \in {"loop", "done", "error"}

\* C1: every scheduled task satisfies end = start + duration and
\* start >= the global schedule start.
C1_TaskTimes ==
    \A i \in PlanIdx :
        /\ plan[i].end = plan[i].start + plan[i].duration_hours
        /\ plan[i].start >= start_dt

C1_Witness ==
    /\ pc = "done"
    /\ Len(plan) >= 3
    /\ \E i \in PlanIdx : plan[i].start > start_dt /\ plan[i].duration_hours > 0
    /\ \E i \in PlanIdx : plan[i].start = start_dt /\ plan[i].duration_hours = 0

\* C2: operation k of a product D work order is processed after operation k-1
\* of the same work order and starts at or after its end plus the minimum lag.
C2_Precedence ==
    \A j \in PlanIdx :
        (plan[j].product = "D" /\ plan[j].operation[2] > 1) =>
            \E i \in 1..(j - 1) :
                /\ plan[i].id = plan[j].id
                /\ plan[i].operation[2] = plan[j].operation[2] - 1
                /\ plan[j].start >= plan[i].end + lag_D_min_h

C2_Witness ==
    /\ pc = "done"
    /\ lag_D_min_h > 0
    /\ count_D = 2
    /\ \E i, j \in PlanIdx :
          /\ plan[i].id = plan[j].id
          /\ plan[i].operation = <<"D", 2>>
          /\ plan[j].operation = <<"D", 3>>
          /\ plan[j].start = plan[i].end + lag_D_min_h
          /\ plan[j].machine # plan[i].machine

\* C3: the window [start, end) of a task meets no merged downtime interval of
\* the machine the task is assigned to.
C3_NoDowntimeOverlap ==
    \A i \in PlanIdx :
        LET blocks == DictGet(downtime, plan[i].machine)
        IN  \A b \in 1..Len(blocks) :
                ~Intersects(plan[i].start, plan[i].end, blocks[b][1], blocks[b][2])

C3_Witness ==
    /\ pc = "done"
    /\ \E i \in PlanIdx :
          LET blocks == DictGet(downtime, plan[i].machine)
          IN  /\ plan[i].duration_hours > 0
              /\ \E b \in 1..Len(blocks) :
                    /\ blocks[b][1] < blocks[b][2]
                    /\ plan[i].start = blocks[b][2]
                    /\ \A j \in 1..(i - 1) :
                          plan[j].machine = plan[i].machine => plan[j].end <= blocks[b][1]

\* C4: a call with an empty machine list is rejected with an error: no
\* operation is assigned and no Plan is returned, whatever the operation list.
C4_EmptyMachinesRejected ==
    machines = <<>> => (result # "plan" /\ pc # "done")

\* C6: a downtime line that cannot be parsed or whose end is <= its start is
\* reported and never reaches the intervals the engine uses.
Malformed(line) == line.s = BadTs \/ line.e = BadTs \/ line.e <= line.s

C6_MalformedSkipped ==
    Scheduling =>
        /\ \A l \in 1..Len(dt_text) :
              Malformed(dt_text[l]) => \E w \in 1..Len(warnings) : warnings[w] = dt_text[l]
        /\ \A m \in DOMAIN downtime : \A b \in 1..Len(downtime[m]) :
              downtime[m][b][1] < downtime[m][b][2]

\* C8: the rule orders the simple-product operations among themselves: LPT by
\* duration descending, WSPT by duration ascending, EDD by due date ascending
\* with undated operations last.
RuleOrdered(a, b) ==
    CASE rule = "LPT"  -> a.duration_hours >= b.duration_hours
      [] rule = "WSPT" -> a.duration_hours <= b.duration_hours
      [] rule = "EDD"  -> \/ b.due_date = None
                          \/ (a.due_date # None /\ a.due_date <= b.due_date)
      [] OTHER         -> TRUE

C8_RuleOrdersSimple ==
    Scheduling =>
        \A i, j \in 1..Len(orders_sorted) :
            (i < j /\ orders_sorted[i].product # "D" /\ orders_sorted[j].product # "D")
                => RuleOrdered(orders_sorted[i], orders_sorted[j])

\* an interval list whose intervals all have start < end
Proper(I) == \A i \in 1..Len(I) : I[i][1] < I[i][2]

\* the window [u, u + d) has a point in common with an interval of I
Meets(u, d, I) == \E i \in 1..Len(I) : Intersects(u, u + d, I[i][1], I[i][2])

\* some interval (ds, de) of I has u < de and ds < u + d
Hit(u, d, I) == \E i \in 1..Len(I) : u < I[i][2] /\ I[i][1] < u + d

\* C7 as stated: on a merged list of proper intervals next_slot returns the
\* smallest t >= candidate whose window [t, t + duration) meets no interval,
\* for every duration >= 0.
C7_Original ==
    (pc = "slot" /\ Proper(p_merged)) =>
        /\ p_slot >= p_cand
        /\ ~Meets(p_slot, p_dur, p_merged)
        /\ \A u \in p_cand..(p_slot - 1) : Meets(u, p_dur, p_merged)

\* C7 (amended): next_slot returns the smallest t >= candidate for which no
\* interval (ds, de) has t < de and ds < t + duration; for a duration > 0 and
\* proper intervals that is the smallest t whose window meets no interval, for
\* duration 0 the smallest t that lies strictly inside no interval.
C7_EarliestSlot ==
    pc = "slot" =>
        /\ p_slot >= p_cand
        /\ ~Hit(p_slot, p_dur, p_merged)
        /\ \A u \in p_cand..(p_slot - 1) : Hit(u, p_dur, p_merged)
        /\ (Proper(p_merged) /\ p_dur > 0) =>
              /\ ~Meets(p_slot, p_dur, p_merged)
              /\ \A u \in p_cand..(p_slot - 1) : Meets(u, p_dur, p_merged)
        /\ (Proper(p_merged) /\ p_dur = 0) =>
              /\ \A i \in 1..Len(p_merged) :
                    ~(p_merged[i][1] < p_slot /\ p_slot < p_merged[i][2])
              /\ \A u \in p_cand..(p_slot - 1) : \E i \in 1..Len(p_merged) :
                    p_merged[i][1] < u /\ u < p_merged[i][2]

C7_Witness ==
    /\ pc = "slot"
    /\ Proper(p_merged)
    /\ Len(p_merged) = 2
    /\ p_dur > 0
    /\ p_cand < p_merged[1][2]
    /\ p_slot = p_merged[2][2]

\* C9: merge_intervals returns intervals sorted ascending by start and pairwise
\* non-overlapping, overlapping or adjacent inputs end up in one interval, and
\* the result covers exactly the union of the inputs.
Covered(t, I) == \E i \in 1..Len(I) : I[i][1] <= t /\ t < I[i][2]

C9_MergeNormalizes ==
    pc \in {"merged", "slot"} =>
        /\ \A i \in 1..(Len(p_merged) - 1) :
              /\ p_merged[i][1] <= p_merged[i + 1][1]
              /\ p_merged[i][2] < p_merged[i + 1][1]
        /\ \A i, j \in 1..Len(p_merged) :
              i # j => ~Intersects(p_merged[i][1], p_merged[i][2],
                                   p_merged[j][1], p_merged[j][2])
        /\ \A x, y \in 1..Len(p_raw) :
              (/\ p_raw[x][1] < p_raw[x][2]
               /\ p_raw[y][1] < p_raw[y][2]
               /\ p_raw[x][1] <= p_raw[y][2]
               /\ p_raw[y][1] <= p_raw[x][2])
                  => \E i \in 1..Len(p_merged) :
                        /\ p_merged[i][1] <= Min(p_raw[x][1], p_raw[y][1])
                        /\ Max(p_raw[x][2], p_raw[y][2]) <= p_merged[i][2]
        /\ \A t \in PPoints : Covered(t, p_raw) <=> Covered(t, p_merged)
        /\ p_raw = << <<0, 2>>, <<1, 3>> >> => p_merged = << <<0, 3>> >>

C9_Witness ==
    /\ pc = "merged"
    /\ Len(p_raw) = 3
    /\ Proper(p_raw)
    /\ p_raw[1][1] > p_raw[2][1]
    /\ p_raw[3][1] = p_raw[2][2]
    /\ p_raw[1][2] > p_raw[3][2]
    /\ Len(p_merged) = 1

\* C10: generating and scheduling twice with the same inputs yields identical
\* Plans.
C10_SameInputsSamePlan ==
    (run = 2 /\ pc = "done") => plan = first_plan

\* C5: a record set becomes the current Plan through Apply Edits or an upload
\* only if every record has the required fields; otherwise the ingest is
\* rejected with an error and the current Plan stays.
HasRequired(rows) == \A i \in 1..Len(rows) : req_cols \subseteq rows[i]

C5_IngestValidated ==
    ss_plan.origin \in {"edited", "loaded"} => HasRequired(ss_plan.rows)

\* C11: under every rule all product D operations are processed, and appear in
\* the Plan, before all simple-product operations (no D operation directly
\* follows a simple one), and the order of the different D work orders is the
\* same under every rule.
IsD(o) == o.product = "D"
IdsOf(os) == [i \in 1..Len(os) |-> os[i].id]

Generated == pc = "schedule"      \* generate_orders_with_D has just returned
NSimple == counts["A"] + counts["B"] + counts["C"]
\* the work order the i-th generated operation belongs to
OrderOf(i) == IF i <= NSimple THEN i ELSE NSimple + ((i - NSimple - 1) \div 3) + 1

C13_GeneratorShape ==
    Generated =>
        /\ Len(orders) = NSimple + (3 * count_D)
        /\ \A p \in ProductSet :
              Cardinality({i \in 1..Len(orders) : orders[i].product = p}) = counts[p]
        /\ \A i \in 1..Len(orders) : ~IsD(orders[i]) => orders[i].op_index = None
        /\ \A j \in 1..count_D : \A op \in 1..3 :
              LET o == orders[NSimple + (3 * (j - 1)) + op]
              IN  /\ o.product = "D"
                  /\ o.op_index = op
                  /\ o.duration_hours = <<1, 3, 2>>[op]
                  /\ o.id = orders[NSimple + (3 * (j - 1)) + 1].id
        /\ \A i, j \in 1..Len(orders) :
              orders[i].id = orders[j].id <=> OrderOf(i) = OrderOf(j)

C13_Witness ==
    /\ Generated
    /\ count_D = 2
    /\ \E p, q \in ProductSet : counts[p] = 0 /\ counts[q] > 0
    /\ Len(orders) > 6

\* C15: each step assigns the operation to the machine whose feasible start,
\* the start max(availability, precedence earliest) moved past the machine's
\* downtime, is the smallest over all machines; among machines with that
\* smallest start the first of the machine list is taken.
FeasibleStart(m, o) ==
    next_slot_avoiding_downtime(
        Max(avail[m], Earliest(o, prev_end_D, start_dt, lag_D_min_h)),
        o.duration_hours, m, downtime)

C15_EarliestMachine ==
    [][ScheduleStep =>
          LET o  == orders_sorted[k]
              it == plan'[Len(plan')]
          IN  /\ it.id = o.id /\ it.operation = <<o.product, Or0(o.op_index)>>
              /\ \E c \in 1..Len(machines) :
                    /\ machines[c] = it.machine
                    /\ it.start = FeasibleStart(machines[c], o)
                    /\ \A i \in 1..Len(machines) :
                          /\ FeasibleStart(machines[i], o) >= it.start
                          /\ i < c => FeasibleStart(machines[i], o) > it.start
       ]_vars

\* a tie on the first step went to the first machine, a later operation went
\* to the second machine because the first one was still busy, and an
\* operation went to the first machine although the second was free earlier
\* in the list order
C15_Witness ==
    /\ pc = "done"
    /\ Len(machines) = 2
    /\ dt_text = <<>>
    /\ Len(plan) >= 3
    /\ plan[1].machine = machines[1]
    /\ plan[2].machine = machines[2] /\ plan[2].start < plan[1].end
    /\ \E i \in 3..Len(plan) :
          /\ plan[i].machine = machines[1]
          /\ plan[i].start = plan[1].end
          /\ plan[2].end = plan[1].end

\* C16: tasks of one machine never overlap: a machine's availability cursor
\* starts at the global start and never decreases, and a task starts at or
\* after the end of every task assigned earlier to the same machine.
C16_MachineSequential ==
    /\ [](\A i, j \in PlanIdx :
            (i < j /\ plan[i].machine = plan[j].machine) =>
                /\ plan[j].start >= plan[i].end
                /\ ~Intersects(plan[i].start, plan[i].end, plan[j].start, plan[j].end))
    /\ [][ScheduleBegin => \A m \in DOMAIN avail' : avail'[m] = start_dt]_vars
    /\ [][\A m \in (DOMAIN avail) \cap (DOMAIN avail') : avail'[m] >= avail[m]]_vars

C16_Witness ==
    /\ pc = "done"
    /\ \E i, j \in PlanIdx :
          /\ i < j
          /\ plan[i].machine = plan[j].machine
          /\ plan[i].duration_hours > 0 /\ plan[j].duration_hours > 0
          /\ plan[j].start = plan[i].end
          /\ avail[plan[j].machine] = plan[j].end
    /\ \E i, j \in PlanIdx :
          /\ i < j
          /\ plan[i].machine = plan[j].machine
          /\ plan[j].start > plan[i].end

\* C12: next_slot_avoiding_downtime returns a timestamp for every finite block
\* list, merged or raw, intervals with end <= start included, and every
\* duration >= 0; every restart of the loop strictly increases the candidate.
C12_SlotTerminates ==
    /\ <>(pc = "slot_returned")
    /\ [](pc = "slot_returned" => (p_slot \in Nat /\ p_slot >= p_cand))
    /\ [][SlotBump => s_cur' > s_cur]_vars

C12_Witness ==
    /\ pc = "slot_returned"
    /\ s_bumps = 2
    /\ p_dur > 0
    /\ \E i \in 1..Len(s_blocks) :
          /\ s_blocks[i][2] <= s_blocks[i][1]
          /\ p_cand < s_blocks[i][2]
          /\ s_blocks[i][1] < p_cand + p_dur
    /\ p_slot > p_cand

\* C14 as stated: metrics reports makespan = latest end minus earliest start,
\* for an empty plan makespan 0 with an empty per-machine map and an empty
\* lateness block, and 8 hours for Scenario A.
SpanTicks(rows) ==
    LET ends   == {rows[i].end : i \in 1..Len(rows)}
        starts == {rows[i].start : i \in 1..Len(rows)}
    IN  (CHOOSE e \in ends : \A x \in ends : x <= e)
            - (CHOOSE b \in starts : \A x \in starts : b <= x)

EmptyPlanMetrics ==
    m_plan = <<>> =>
        /\ m_out.makespan_hours = 0
        /\ DOMAIN m_out.by_machine = {}
        /\ DOMAIN m_out.lateness = {}

ScenarioMetrics ==
    (Len(m_plan) = ScenarioOps /\ Len(machines) = ScenarioMachines) =>
        m_out.makespan_hours = 100 * (2 * ScenarioDur)

C14_Original ==
    pc = "metrics" =>
        /\ EmptyPlanMetrics
        /\ ScenarioMetrics
        /\ m_plan # <<>> => m_out.makespan_hours * TicksPerHour = 100 * SpanTicks(m_plan)

\* C14 (amended): metrics reports the makespan, latest end minus earliest
\* start, rounded to two decimals of an hour (exact when it is a multiple of
\* 0.01 h); an empty plan gives makespan 0, an empty per-machine map and an
\* empty lateness block; Scenario A gives 8 hours.
C14_MakespanRounded ==
    pc = "metrics" =>
        /\ EmptyPlanMetrics
        /\ ScenarioMetrics
        /\ m_plan # <<>> =>
              LET diff == (m_out.makespan_hours * TicksPerHour) - (100 * SpanTicks(m_plan))
              IN  (2 * diff <= TicksPerHour) /\ (2 * diff >= 0 - TicksPerHour)

C14_Witness ==
    /\ pc = "metrics"
    /\ Len(m_plan) = 2
    /\ m_plan[1].machine # m_plan[2].machine
    /\ m_plan[1].end > m_plan[2].end
    /\ m_plan[1].start > m_plan[2].start
    /\ (100 * SpanTicks(m_plan)) % TicksPerHour # 0
    /\ m_out.makespan_hours = 101

\* C17: a Plan installed by Apply Edits or by an upload stays the current Plan
\* across every rerun of the script without a Generate + Schedule click,
\* whatever number of such clicks happened before.
C17_PlanKeptOnRerun ==
    [][(Rerun /\ ss_plan.origin \in {"edited", "loaded"}) => ss_plan' = ss_plan]_vars

====
